---- MODULE Spec2Model ----
(***************************************************************************)
(* PyStegano (src/main.py): hiding an image (secret) inside another image  *)
(* (camul) in the two rightmost bits of every channel, and extracting it.  *)
(*                                                                         *)
(* Four specifications share this module:                                  *)
(*   SpecChannel   the per-channel functions on every pair of bytes        *)
(*   Spec          hide_image / extract_image, pixel by pixel, as a        *)
(*                 session of program runs over image files                *)
(*   SpecAnyOrder  the same loops with the iterations taken in any order   *)
(*   SpecMain      main(): argument handling, file checks, saving          *)
(***************************************************************************)
EXTENDS Integers, Sequences, FiniteSets, TLC

VARIABLES
    \* ---- per-channel functions (SpecChannel)
    chan_pc,        \* "start" | "merged" | "extracted"
    camul_value,    \* argument of merge_pixel_value
    secret_value,   \* argument of merge_pixel_value
    camul_values,   \* result of merge_pixel_value, argument of extract_pixel_value
    secret_out,     \* result of extract_pixel_value
    \* ---- hide_image / extract_image (Spec, SpecAnyOrder)
    method,         \* "hide" | "extract": the function the run calls
    camul,          \* the image file named by the camul argument
    secret,         \* the image file named by the secret argument
    camul_data,     \* Image.open(camul)
    secret_data,    \* Image.open(secret)
    data,           \* the image being built, Image.new('RGB', ...)
    data_xs,
    data_ys,
    i,              \* the loops' position: the next body runs at (i, j)
    j,
    pc,             \* "start" | "hide_loop" | "extract_loop" | "returned" | "error"
    visited,        \* the (i, j) whose loop body has run
    writes,         \* per pixel of data, the number of putpixel calls on it
    history,        \* the finished runs: method, camul, secret, result
    \* ---- main (SpecMain)
    main_pc,        \* the statement of main that runs next, or "exited"
    args,           \* parser.parse_args(): method, camul, secret, output
    argv,           \* args as parse_args returned them
    fs,             \* the file system: per path "absent", "file" or "dir"
    fs_at_start,    \* fs when the program started
    stderr,         \* what was written to stderr ("" nothing)
    stdout,         \* what was printed ("" nothing)
    exit_code,      \* -1 while running
    saved           \* the paths Image.save wrote

chanVars == <<chan_pc, camul_value, secret_value, camul_values, secret_out>>

imgVars == <<method, camul, secret, camul_data, secret_data, data, data_xs,
             data_ys, i, j, pc, visited, writes, history>>

mainVars == <<main_pc, args, argv, fs, fs_at_start, stderr, stdout, exit_code, saved>>

vars == <<chanVars, imgVars, mainVars>>

\* A valid value for rgb (0 ~ 255)
MaxValue == 255

----------------------------------------------------------------------------
(* Python's integer operators, on naturals.                                *)

Pow2(n) == 2 ^ n

\* a << n
Shl(a, n) == a * Pow2(n)

\* a >> n
Shr(a, n) == a \div Pow2(n)

\* a & b
RECURSIVE BitAnd(_, _)
BitAnd(a, b) ==
    IF a = 0 \/ b = 0 THEN 0
    ELSE (IF a % 2 = 1 /\ b % 2 = 1 THEN 1 ELSE 0) + 2 * BitAnd(a \div 2, b \div 2)

\* reversed(list)
Reversed(s) == [k \in 1..Len(s) |-> s[Len(s) + 1 - k]]

----------------------------------------------------------------------------
(* The bit-group functions.                                                *)

\* mutant: the list is returned without reversed(), least-significant pair first
get_2bit_groups_unreversed(value) ==
    [k \in 1..4 |-> Shr(BitAnd(value, Shl(3, 2 * (k - 1))), 2 * (k - 1))]

get_2bit_groups(value) ==
    Reversed([k \in 1..4 |-> Shr(BitAnd(value, Shl(3, 2 * (k - 1))), 2 * (k - 1))])

\* mutant: nothing is truncated
truncate_nothing(value) == value

truncate_rightmost_2bits(value) == Shl(Shr(value, 2), 2)

merge_pixel_value(cv, sv) ==
    LET values == get_2bit_groups(sv)
        truncated == truncate_rightmost_2bits(cv)
    IN  [k \in 1..Len(values) |-> truncated + values[k]]

\* the loop of extract_pixel_value over values[1:], from the k-th element on
RECURSIVE extract_fold(_, _, _)
extract_fold(values, k, acc) ==
    IF k > Len(values) THEN acc
    ELSE extract_fold(values, k + 1, Shl(acc, 2) + values[k])

\* mutant: values are taken modulo 1 << 3
extract_pixel_value_mod8(cvs) ==
    LET values == [k \in 1..Len(cvs) |-> cvs[k] % Shl(1, 3)]
    IN  extract_fold(values, 2, values[1])

extract_pixel_value(cvs) ==
    LET values == [k \in 1..Len(cvs) |-> cvs[k] % Shl(1, 2)]
    IN  extract_fold(values, 2, values[1])

----------------------------------------------------------------------------
(* Images: a size (xs, ys) and one (red, green, blue) pixel per (x, y)     *)
(* with 0 <= x < xs and 0 <= y < ys, as PIL's Image gives them.            *)

\* Bounds on the sizes of the input images
MaxXs == 2
MaxYs == 2

Min(a, b) == IF a < b THEN a ELSE b
Max(a, b) == IF a > b THEN a ELSE b

Coords(xs, ys) == (0..(xs - 1)) \X (0..(ys - 1))

\* Image.new('RGB', (xs, ys)): every pixel black
ImageNew(xs, ys) ==
    [size |-> <<xs, ys>>, px |-> [xy \in Coords(xs, ys) |-> <<0, 0, 0>>]]

NoImage == ImageNew(0, 0)

\* img.getpixel(xy) and img.putpixel(xy, value) raise IndexError outside the image
InImage(img, xy) == xy \in DOMAIN img.px

getpixel(img, xy) == img.px[xy]

putpixel(img, xy, value) == [img EXCEPT !.px[xy] = value]

\* An input image: the pixel at (0, 0) is base, and every other pixel differs
\* from it and from its neighbours in its top six and in its bottom two bits.
GenImage(base, xs, ys) ==
    [size |-> <<xs, ys>>,
     px   |-> [xy \in Coords(xs, ys) |->
                 [c \in 1..3 |-> (base[c] + 67 * xy[1] + 29 * xy[2]) % (MaxValue + 1)]]]

CamulBases == {<<200, 10, 5>>, <<255, 254, 3>>, <<0, 129, 90>>}
SecretBases == {<<77, 250, 1>>, <<0, 255, 228>>, <<27, 180, 114>>}

\* The same image with only the top six bits of its channel values changed
Variant(img, k) ==
    [img EXCEPT !.px = [xy \in DOMAIN img.px |->
        [c \in 1..3 |-> (img.px[xy][c] + 4 * k * (xy[1] + xy[2] + c)) % (MaxValue + 1)]]]

Shifts == {1, 50}

\* Python's None, among strings
None == "None"

MainIdle ==
    /\ main_pc = "idle"
    /\ args = <<>>
    /\ argv = <<>>
    /\ fs = <<>>
    /\ fs_at_start = <<>>
    /\ stderr = ""
    /\ stdout = ""
    /\ exit_code = -1
    /\ saved = {}

ImgIdle ==
    /\ method = "none"
    /\ camul = NoImage
    /\ secret = NoImage
    /\ camul_data = NoImage
    /\ secret_data = NoImage
    /\ data = NoImage
    /\ data_xs = 0
    /\ data_ys = 0
    /\ i = 0
    /\ j = 0
    /\ pc = "idle"
    /\ visited = {}
    /\ writes = <<>>
    /\ history = <<>>

----------------------------------------------------------------------------
(* hide_image                                                              *)

\* mutant: the larger of the two sizes
hide_size_max(cs, ss) == Max(cs, ss)

\* data_xs = min(cxs, sxs); data_ys = min(cys, sys)
hide_size(cs, ss) == Min(cs, ss)

\* mutant: the second and third pixel of the block change places
hide_cells_transposed(a, b) ==
    << <<2 * a, 2 * b>>, <<2 * a, 2 * b + 1>>, <<2 * a + 1, 2 * b>>, <<2 * a + 1, 2 * b + 1>> >>

\* mutant: the third pixel is put where the second one is
hide_cells_collide(a, b) ==
    << <<2 * a, 2 * b>>, <<2 * a + 1, 2 * b>>, <<2 * a + 1, 2 * b>>, <<2 * a + 1, 2 * b + 1>> >>

\* the four putpixel positions of the body at (a, b), in the order of the
\* values merge_pixel_value returns
hide_cells(a, b) ==
    << <<2 * a, 2 * b>>, <<2 * a + 1, 2 * b>>, <<2 * a, 2 * b + 1>>, <<2 * a + 1, 2 * b + 1>> >>

\* the putpixel calls from the k-th on
RECURSIVE put_block(_, _, _, _, _, _)
put_block(img, cells, reds, greens, blues, k) ==
    IF k > Len(cells) THEN img
    ELSE put_block(putpixel(img, cells[k], <<reds[k], greens[k], blues[k]>>),
                   cells, reds, greens, blues, k + 1)

\* the loop body at (a, b), on the image out
hide_body(out, a, b) ==
    LET p == getpixel(camul_data, <<a, b>>)
        q == getpixel(secret_data, <<a, b>>)
        red_values == merge_pixel_value(p[1], q[1])
        green_values == merge_pixel_value(p[2], q[2])
        blue_values == merge_pixel_value(p[3], q[3])
    IN  put_block(out, hide_cells(a, b), red_values, green_values, blue_values, 1)

\* no getpixel and no putpixel of the body at (a, b) raises
hide_in_bounds(a, b) ==
    /\ InImage(camul_data, <<a, b>>)
    /\ InImage(secret_data, <<a, b>>)
    /\ \A k \in 1..4 : InImage(data, hide_cells(a, b)[k])

\* the writes counted: one more for each putpixel on a pixel
Counted(w, cells) ==
    [xy \in DOMAIN w |-> w[xy] + Cardinality({k \in 1..Len(cells) : cells[k] = xy})]

\* for i in range(data_xs): for j in range(data_ys): the position after (a, b)
NextI(a, b) == IF b + 1 < data_ys THEN a ELSE a + 1
NextJ(a, b) == IF b + 1 < data_ys THEN b + 1 ELSE 0

HideOpen ==
    /\ pc = "start"
    /\ method = "hide"
    /\ camul_data' = camul
    /\ secret_data' = secret
    /\ data_xs' = hide_size(camul.size[1], secret.size[1])
    /\ data_ys' = hide_size(camul.size[2], secret.size[2])
    /\ data' = ImageNew(2 * data_xs', 2 * data_ys')
    /\ writes' = [xy \in DOMAIN data'.px |-> 0]
    /\ visited' = {}
    /\ i' = 0
    /\ j' = 0
    /\ pc' = "hide_loop"
    /\ UNCHANGED <<method, camul, secret, history>>
    /\ UNCHANGED <<chanVars, mainVars>>

\* one run of the loop body, at (a, b)
HideIter(a, b) ==
    IF hide_in_bounds(a, b)
    THEN /\ data' = hide_body(data, a, b)
         /\ writes' = Counted(writes, hide_cells(a, b))
         /\ visited' = visited \cup {<<a, b>>}
         /\ pc' = pc
    ELSE /\ pc' = "error"
         /\ UNCHANGED <<data, writes, visited>>

HideStep ==
    /\ pc = "hide_loop"
    /\ i < data_xs
    /\ j < data_ys
    /\ HideIter(i, j)
    /\ i' = NextI(i, j)
    /\ j' = NextJ(i, j)
    /\ UNCHANGED <<method, camul, secret, camul_data, secret_data, data_xs, data_ys, history>>
    /\ UNCHANGED <<chanVars, mainVars>>

Finished == [method |-> method, camul |-> camul, secret |-> secret, result |-> data]

HideReturn ==
    /\ pc = "hide_loop"
    /\ ~(i < data_xs /\ j < data_ys)
    /\ pc' = "returned"
    /\ history' = Append(history, Finished)
    /\ UNCHANGED <<method, camul, secret, camul_data, secret_data, data, data_xs,
                   data_ys, i, j, visited, writes>>
    /\ UNCHANGED <<chanVars, mainVars>>

----------------------------------------------------------------------------
(* extract_image                                                           *)

\* mutant: rounded up
extract_size_ceil(cs) == (cs + 1) \div 2

\* data_xs = cxs // 2; data_ys = cys // 2
extract_size(cs) == cs \div 2

\* mutant: p2 and p3 are read from each other's place
extract_cells_transposed(a, b) ==
    << <<2 * a, 2 * b>>, <<2 * a, 2 * b + 1>>, <<2 * a + 1, 2 * b>>, <<2 * a + 1, 2 * b + 1>> >>

\* the positions of p1, p2, p3, p4 in the body at (a, b)
extract_cells(a, b) ==
    << <<2 * a, 2 * b>>, <<2 * a + 1, 2 * b>>, <<2 * a, 2 * b + 1>>, <<2 * a + 1, 2 * b + 1>> >>

\* the loop body at (a, b), on the image out
extract_body(out, a, b) ==
    LET cells == extract_cells(a, b)
        p1 == getpixel(camul_data, cells[1])
        p2 == getpixel(camul_data, cells[2])
        p3 == getpixel(camul_data, cells[3])
        p4 == getpixel(camul_data, cells[4])
        q_red == extract_pixel_value(<<p1[1], p2[1], p3[1], p4[1]>>)
        q_green == extract_pixel_value(<<p1[2], p2[2], p3[2], p4[2]>>)
        q_blue == extract_pixel_value(<<p1[3], p2[3], p3[3], p4[3]>>)
    IN  putpixel(out, <<a, b>>, <<q_red, q_green, q_blue>>)

extract_in_bounds(a, b) ==
    /\ \A k \in 1..4 : InImage(camul_data, extract_cells(a, b)[k])
    /\ InImage(data, <<a, b>>)

ExtractOpen ==
    /\ pc = "start"
    /\ method = "extract"
    /\ camul_data' = camul
    /\ data_xs' = extract_size(camul.size[1])
    /\ data_ys' = extract_size(camul.size[2])
    /\ data' = ImageNew(data_xs', data_ys')
    /\ writes' = [xy \in DOMAIN data'.px |-> 0]
    /\ visited' = {}
    /\ i' = 0
    /\ j' = 0
    /\ pc' = "extract_loop"
    /\ UNCHANGED <<method, camul, secret, secret_data, history>>
    /\ UNCHANGED <<chanVars, mainVars>>

ExtractIter(a, b) ==
    IF extract_in_bounds(a, b)
    THEN /\ data' = extract_body(data, a, b)
         /\ writes' = Counted(writes, << <<a, b>> >>)
         /\ visited' = visited \cup {<<a, b>>}
         /\ pc' = pc
    ELSE /\ pc' = "error"
         /\ UNCHANGED <<data, writes, visited>>

ExtractStep ==
    /\ pc = "extract_loop"
    /\ i < data_xs
    /\ j < data_ys
    /\ ExtractIter(i, j)
    /\ i' = NextI(i, j)
    /\ j' = NextJ(i, j)
    /\ UNCHANGED <<method, camul, secret, camul_data, secret_data, data_xs, data_ys, history>>
    /\ UNCHANGED <<chanVars, mainVars>>

ExtractReturn ==
    /\ pc = "extract_loop"
    /\ ~(i < data_xs /\ j < data_ys)
    /\ pc' = "returned"
    /\ history' = Append(history, Finished)
    /\ UNCHANGED <<method, camul, secret, camul_data, secret_data, data, data_xs,
                   data_ys, i, j, visited, writes>>
    /\ UNCHANGED <<chanVars, mainVars>>

----------------------------------------------------------------------------
(* SpecChannel: merge_pixel_value, then extract_pixel_value of its result, *)
(* for every camul value and every secret value.                           *)

ChanIdle ==
    /\ chan_pc = "idle"
    /\ camul_value = 0
    /\ secret_value = 0
    /\ camul_values = <<>>
    /\ secret_out = 0

ChanInit ==
    /\ chan_pc = "start"
    /\ camul_value \in 0..MaxValue
    /\ secret_value \in 0..MaxValue
    /\ camul_values = <<>>
    /\ secret_out = 0
    /\ ImgIdle
    /\ MainIdle

ChanMerge ==
    /\ chan_pc = "start"
    /\ camul_values' = merge_pixel_value(camul_value, secret_value)
    /\ chan_pc' = "merged"
    /\ UNCHANGED <<camul_value, secret_value, secret_out>>
    /\ UNCHANGED <<imgVars, mainVars>>

ChanExtract ==
    /\ chan_pc = "merged"
    /\ secret_out' = extract_pixel_value(camul_values)
    /\ chan_pc' = "extracted"
    /\ UNCHANGED <<camul_value, secret_value, camul_values>>
    /\ UNCHANGED <<imgVars, mainVars>>

ChanNext == ChanMerge \/ ChanExtract

SpecChannel == ChanInit /\ [][ChanNext]_vars

----------------------------------------------------------------------------
(* Spec: a session of runs. The first run hides a secret in a camul, or    *)
(* extracts from any image; the image a hide run returns is saved and      *)
(* given to an extract run; then the same secret is hidden in a camul that *)
(* differs from the first in its top six bits only, and extracted again.   *)

ImgInitFrom(camul_bases, secret_bases) ==
    /\ pc = "start"
    /\ \/ /\ method = "hide"
          /\ \E cb \in camul_bases, cxs \in 0..MaxXs, cys \in 0..MaxYs :
                camul = GenImage(cb, cxs, cys)
          /\ \E sb \in secret_bases, sxs \in 0..MaxXs, sys \in 0..MaxYs :
                secret = GenImage(sb, sxs, sys)
       \/ /\ method = "extract"
          /\ \E cb \in camul_bases, cxs \in 0..(2 * MaxXs + 1), cys \in 0..(2 * MaxYs + 1) :
                camul = GenImage(cb, cxs, cys)
          /\ secret = NoImage
    /\ camul_data = NoImage
    /\ secret_data = NoImage
    /\ data = NoImage
    /\ data_xs = 0
    /\ data_ys = 0
    /\ i = 0
    /\ j = 0
    /\ visited = {}
    /\ writes = <<>>
    /\ history = <<>>

ImgInit == ImgInitFrom(CamulBases, SecretBases)

Init == ImgInit /\ ChanIdle /\ MainIdle

\* the image hide_image returned is saved, and the program is run on it
RunExtractOnHidden ==
    /\ pc = "returned"
    /\ method = "hide"
    /\ method' = "extract"
    /\ camul' = data
    /\ secret' = NoImage
    /\ pc' = "start"
    /\ UNCHANGED <<camul_data, secret_data, data, data_xs, data_ys, i, j, visited,
                   writes, history>>
    /\ UNCHANGED <<chanVars, mainVars>>

\* the program is run again on the same secret and a variant of the camul
RunHideOnVariant ==
    /\ pc = "returned"
    /\ method = "extract"
    /\ Len(history) = 2
    /\ \E k \in Shifts : camul' = Variant(history[1].camul, k)
    /\ secret' = history[1].secret
    /\ method' = "hide"
    /\ pc' = "start"
    /\ UNCHANGED <<camul_data, secret_data, data, data_xs, data_ys, i, j, visited,
                   writes, history>>
    /\ UNCHANGED <<chanVars, mainVars>>

Next ==
    \/ HideOpen
    \/ HideStep
    \/ HideReturn
    \/ ExtractOpen
    \/ ExtractStep
    \/ ExtractReturn
    \/ RunExtractOnHidden
    \/ RunHideOnVariant

Spec == Init /\ [][Next]_vars

----------------------------------------------------------------------------
(* SpecAnyOrder: the loop bodies run once for every (i, j), in any order,  *)
(* on the images of one camul base and one secret base.                    *)

InitAnyOrder ==
    /\ ImgInitFrom({<<200, 10, 5>>}, {<<77, 250, 1>>})
    /\ ChanIdle
    /\ MainIdle

Unvisited == Coords(data_xs, data_ys) \ visited

HideAny ==
    /\ pc = "hide_loop"
    /\ \E xy \in Unvisited :
          /\ HideIter(xy[1], xy[2])
          /\ i' = xy[1]
          /\ j' = xy[2]
    /\ UNCHANGED <<method, camul, secret, camul_data, secret_data, data_xs, data_ys, history>>
    /\ UNCHANGED <<chanVars, mainVars>>

HideReturnAny ==
    /\ pc = "hide_loop"
    /\ Unvisited = {}
    /\ pc' = "returned"
    /\ history' = Append(history, Finished)
    /\ UNCHANGED <<method, camul, secret, camul_data, secret_data, data, data_xs,
                   data_ys, i, j, visited, writes>>
    /\ UNCHANGED <<chanVars, mainVars>>

ExtractAny ==
    /\ pc = "extract_loop"
    /\ \E xy \in Unvisited :
          /\ ExtractIter(xy[1], xy[2])
          /\ i' = xy[1]
          /\ j' = xy[2]
    /\ UNCHANGED <<method, camul, secret, camul_data, secret_data, data_xs, data_ys, history>>
    /\ UNCHANGED <<chanVars, mainVars>>

ExtractReturnAny ==
    /\ pc = "extract_loop"
    /\ Unvisited = {}
    /\ pc' = "returned"
    /\ history' = Append(history, Finished)
    /\ UNCHANGED <<method, camul, secret, camul_data, secret_data, data, data_xs,
                   data_ys, i, j, visited, writes>>
    /\ UNCHANGED <<chanVars, mainVars>>

NextAnyOrder ==
    \/ HideOpen
    \/ HideAny
    \/ HideReturnAny
    \/ ExtractOpen
    \/ ExtractAny
    \/ ExtractReturnAny
    \/ RunExtractOnHidden

SpecAnyOrder == InitAnyOrder /\ [][NextAnyOrder]_vars

----------------------------------------------------------------------------
(* SpecMain: main(), from the arguments parse_args returned to the exit.   *)

MethodArgs == {"hide", "HIDE", "extract", "rotate"}
CamulArgs == {"a.png", "b.bmp"}
SecretArgs == {"s.png"}
OutputArgs == {"o.png"}

\* str.lower()
lower(m) == CASE m = "HIDE" -> "hide" [] OTHER -> m

\* os.path.splitext(path)[-1]
splitext_ext(path) ==
    CASE path \in {"a.png", "s.png", "o.png"} -> ".png"
      [] path = "b.bmp" -> ".bmp"
      [] OTHER -> ""

InputPaths == CamulArgs \cup SecretArgs
OutputPaths == OutputArgs \cup {"hidden.png", "hidden.bmp", "extracted.png", "extracted.bmp"}
Paths == InputPaths \cup OutputPaths

\* os.path.exists(path), os.path.isfile(path)
exists(path) == fs[path] # "absent"
isfile(path) == fs[path] = "file"

MainInit ==
    /\ main_pc = "normalize"
    /\ \E m \in MethodArgs, c \in CamulArgs, s \in SecretArgs \cup {None},
          o \in OutputArgs \cup {None} :
          args = [method |-> m, camul |-> c, secret |-> s, output |-> o]
    /\ argv = args
    /\ \E ins \in [InputPaths -> {"absent", "file", "dir"}],
          outs \in [OutputPaths -> {"absent", "file"}] :
          fs = [p \in Paths |-> IF p \in InputPaths THEN ins[p] ELSE outs[p]]
    /\ fs_at_start = fs
    /\ stderr = ""
    /\ stdout = ""
    /\ exit_code = -1
    /\ saved = {}
    /\ ImgIdle
    /\ ChanIdle

\* sys.stderr.write(message); sys.exit(1)
ErrorExit(message) ==
    /\ stderr' = message
    /\ exit_code' = 1
    /\ main_pc' = "exited"
    /\ UNCHANGED <<args, argv, fs, fs_at_start, stdout, saved>>

\* an exception nothing catches: the traceback on stderr, exit code 1
Uncaught(exception) == ErrorExit("Traceback: " \o exception)

Continue(next) ==
    /\ main_pc' = next
    /\ UNCHANGED <<args, argv, fs, fs_at_start, stderr, stdout, exit_code, saved>>

\* args.method = args.method[0].lower(); args.camul = args.camul[0];
\* if args.method == 'hide': args.secret = args.secret[0]
Normalize ==
    /\ main_pc = "normalize"
    /\ IF lower(args.method) = "hide" /\ args.secret = None
       THEN Uncaught("TypeError: 'NoneType' object is not subscriptable")
       ELSE /\ args' = [args EXCEPT !.method = lower(args.method)]
            /\ main_pc' = "check_method"
            /\ UNCHANGED <<argv, fs, fs_at_start, stderr, stdout, exit_code, saved>>
    /\ UNCHANGED <<chanVars, imgVars>>

CheckMethod ==
    /\ main_pc = "check_method"
    /\ IF args.method # "hide" /\ args.method # "extract"
       THEN ErrorExit("Error: invalid method")
       ELSE Continue("check_secret")
    /\ UNCHANGED <<chanVars, imgVars>>

CheckSecret ==
    /\ main_pc = "check_secret"
    /\ IF args.method = "hide" /\ args.secret = None
       THEN ErrorExit("Error: Method hide requires secret to be provided")
       ELSE Continue("check_camul_file")
    /\ UNCHANGED <<chanVars, imgVars>>

CheckCamulFile ==
    /\ main_pc = "check_camul_file"
    /\ IF (~exists(args.camul)) \/ (~isfile(args.camul))
       THEN ErrorExit("Error: " \o args.camul \o " doesn't exist or is not a file")
       ELSE Continue("check_secret_file")
    /\ UNCHANGED <<chanVars, imgVars>>

CheckSecretFile ==
    /\ main_pc = "check_secret_file"
    /\ IF args.method = "hide" /\ ((~exists(args.secret)) \/ (~isfile(args.secret)))
       THEN ErrorExit("Error: " \o args.secret \o " doesn't exist or is not a file")
       ELSE Continue("check_output")
    /\ UNCHANGED <<chanVars, imgVars>>

CheckOutput ==
    /\ main_pc = "check_output"
    /\ IF args.output # None /\ exists(args.output)
       THEN ErrorExit("Error: " \o args.output \o " already exists")
       ELSE Continue("run")
    /\ UNCHANGED <<chanVars, imgVars>>

\* if args.output is None: args.output = 'hidden' + splitext(args.camul)[-1]
\* (or 'extracted' + ...)
default_output(m, c) ==
    (IF m = "hide" THEN "hidden" ELSE "extracted") \o splitext_ext(c)

\* hide_image(...).save(args.output) or extract_image(...).save(args.output),
\* then print(f"{args.output} generated")
Run ==
    /\ main_pc = "run"
    /\ LET output == IF args.output = None
                     THEN default_output(args.method, args.camul)
                     ELSE args.output
       IN  /\ args' = [args EXCEPT !.output = output]
           /\ fs' = [fs EXCEPT ![output] = "file"]
           /\ saved' = saved \cup {output}
           /\ stdout' = output \o " generated"
    /\ exit_code' = 0
    /\ main_pc' = "exited"
    /\ UNCHANGED <<argv, fs_at_start, stderr>>
    /\ UNCHANGED <<chanVars, imgVars>>

MainNext ==
    \/ Normalize
    \/ CheckMethod
    \/ CheckSecret
    \/ CheckCamulFile
    \/ CheckSecretFile
    \/ CheckOutput
    \/ Run

SpecMain == MainInit /\ [][MainNext]_vars

----------------------------------------------------------------------------
(* Properties of main (SpecMain).                                          *)

\* the path the run would save its image to
SaveTarget ==
    IF argv.output # None THEN argv.output
    ELSE default_output(lower(argv.method), argv.camul)

\* C3: no silent overwrite: whenever the path the result would be saved to
\* already exists, given with --output or the default hidden.<ext> /
\* extracted.<ext>, the program writes an error to stderr, exits with code
\* 1, and never writes the existing file.
C3_NoSilentOverwrite ==
    ( /\ main_pc = "exited"
      /\ lower(argv.method) \in {"hide", "extract"}
      /\ fs_at_start[SaveTarget] # "absent" ) =>
        /\ exit_code = 1
        /\ stderr # ""
        /\ SaveTarget \notin saved

\* C4: a missing secret is a reported error: with method hide (in any letter
\* case) and no --secret, the program reaches its own check, writes that
\* method hide requires a secret to stderr and exits with code 1 from that
\* check, not from an unhandled exception.
C4_MissingSecretReported ==
    ( /\ main_pc = "exited"
      /\ lower(argv.method) = "hide"
      /\ argv.secret = None ) =>
        /\ exit_code = 1
        /\ stderr = "Error: Method hide requires secret to be provided"


----------------------------------------------------------------------------
(* Properties of the per-channel functions (SpecChannel).                  *)

\* C5: merge/extract inverse per channel: for every camul value and every
\* secret value in [0,255], extract_pixel_value(merge_pixel_value(camul,
\* secret)) is the secret value.
C5_MergeExtractInverse ==
    chan_pc = "extracted" => secret_out = secret_value

\* the spec's example: camul 200, secret 77, merged to 201, 200, 203, 201
C5_Witness ==
    /\ chan_pc = "extracted"
    /\ camul_value = 200
    /\ secret_value = 77
    /\ camul_values = <<201, 200, 203, 201>>
    /\ secret_out = 77

\* C6: truncation: merge_pixel_value returns exactly four values, each with
\* the camul value's top six bits (v & 0b11111100 == camul & 0b11111100) and
\* each within 0..255.
C6_Truncation ==
    chan_pc \in {"merged", "extracted"} =>
        /\ Len(camul_values) = 4
        /\ \A k \in 1..4 :
              /\ BitAnd(camul_values[k], 252) = BitAnd(camul_value, 252)
              /\ 0 <= camul_values[k]
              /\ camul_values[k] <= 255

\* the largest camul value with the largest groups stays within a byte
C6_Witness ==
    /\ chan_pc = "merged"
    /\ camul_value = 255
    /\ secret_value = 255
    /\ camul_values = <<255, 255, 255, 255>>

----------------------------------------------------------------------------
(* Properties of hide_image and extract_image (Spec).                      *)

\* the k-th 2-bit group of a byte, most-significant pair first
Group(s, k) == (s \div (4 ^ (4 - k))) % 4

\* the block of (a, b): its four pixels in group order
Block(a, b) ==
    << <<2 * a, 2 * b>>, <<2 * a + 1, 2 * b>>, <<2 * a, 2 * b + 1>>, <<2 * a + 1, 2 * b + 1>> >>

\* run k of the history hid a secret, and run k + 1 extracted from its result
HiddenThenExtracted(k) ==
    /\ k + 1 <= Len(history)
    /\ history[k].method = "hide"
    /\ history[k + 1].method = "extract"
    /\ history[k + 1].camul = history[k].result

\* C1: round trip: for a camul and a secret of the same dimensions W x H,
\* extract_image of the image hide_image returns is a W x H image equal to
\* the secret at every pixel and channel.
C1_RoundTrip ==
    \A k \in 1..Len(history) :
        (HiddenThenExtracted(k) /\ history[k].camul.size = history[k].secret.size) =>
            /\ history[k + 1].result.size = history[k].secret.size
            /\ history[k + 1].result.px = history[k].secret.px

C1_Witness ==
    /\ Len(history) >= 2
    /\ HiddenThenExtracted(1)
    /\ history[1].camul.size = <<2, 2>>
    /\ history[1].secret.size = <<2, 2>>
    /\ history[1].secret.px[<<0, 0>>] = <<77, 250, 1>>
    /\ history[2].result.px[<<0, 0>>] = <<77, 250, 1>>
    /\ history[2].result.px[<<1, 1>>] = history[1].secret.px[<<1, 1>>]

\* C2: dimension contract: hide_image's image has size
\* (2*min(Cw,Sw), 2*min(Ch,Sh)); extract_image's image has size
\* (floor(Ew/2), floor(Eh/2)), odd Ew or Eh included.
SizeContract(m, c, s, d) ==
    /\ m = "hide" =>
          d.size = <<2 * Min(c.size[1], s.size[1]), 2 * Min(c.size[2], s.size[2])>>
    /\ m = "extract" =>
          /\ 2 * d.size[1] <= c.size[1]
          /\ c.size[1] < 2 * d.size[1] + 2
          /\ 2 * d.size[2] <= c.size[2]
          /\ c.size[2] < 2 * d.size[2] + 2
    /\ DOMAIN d.px = Coords(d.size[1], d.size[2])

TopBitsOnly(c1, c2) ==
    /\ c1.size = c2.size
    /\ \A xy \in DOMAIN c1.px : \A c \in 1..3 : c1.px[xy][c] % 4 = c2.px[xy][c] % 4

C7_CarrierIndependence ==
    \A k, l \in 1..Len(history) :
        ( /\ HiddenThenExtracted(k)
          /\ HiddenThenExtracted(l)
          /\ history[k].secret = history[l].secret
          /\ TopBitsOnly(history[k].camul, history[l].camul) ) =>
            history[k + 1].result = history[l + 1].result

C7_Witness ==
    /\ Len(history) = 4
    /\ HiddenThenExtracted(1)
    /\ HiddenThenExtracted(3)
    /\ history[1].secret = history[3].secret
    /\ TopBitsOnly(history[1].camul, history[3].camul)
    /\ history[1].camul.size = <<2, 2>>
    /\ history[1].secret.size = <<2, 2>>
    /\ \A xy \in DOMAIN history[1].camul.px :
          history[1].camul.px[xy] # history[3].camul.px[xy]
    /\ history[1].result # history[3].result
    /\ history[2].result = history[4].result

\* C8: block layout: for every (i, j) of the overlap and every channel c,
\* hide_image writes out[2i,2j][c], out[2i+1,2j][c], out[2i,2j+1][c],
\* out[2i+1,2j+1][c] = (camul[i,j][c] & 0b11111100) + g0, g1, g2, g3, the
\* 2-bit groups of secret[i,j][c], most-significant pair first; and
\* extract_image reads the same four positions in the same group order.
HiddenLayout(c, s, d) ==
    \A a \in 0..(Min(c.size[1], s.size[1]) - 1), b \in 0..(Min(c.size[2], s.size[2]) - 1) :
        \A ch \in 1..3, g \in 1..4 :
            d.px[Block(a, b)[g]][ch] =
                BitAnd(c.px[<<a, b>>][ch], 252) + Group(s.px[<<a, b>>][ch], g)

ExtractedLayout(c, d) ==
    \A xy \in DOMAIN d.px : \A ch \in 1..3, g \in 1..4 :
        Group(d.px[xy][ch], g) = c.px[Block(xy[1], xy[2])[g]][ch] % 4

C8_BlockLayout ==
    \A k \in 1..Len(history) :
        /\ history[k].method = "hide" =>
              HiddenLayout(history[k].camul, history[k].secret, history[k].result)
        /\ history[k].method = "extract" =>
              ExtractedLayout(history[k].camul, history[k].result)

\* the spec's example pixel at (0, 0): red 200 with 77 gives 201, 200, 203, 201
C8_Witness ==
    /\ Len(history) >= 2
    /\ HiddenThenExtracted(1)
    /\ history[1].camul.size = <<2, 2>>
    /\ history[1].secret.size = <<2, 1>>
    /\ history[1].camul.px[<<0, 0>>] = <<200, 10, 5>>
    /\ history[1].secret.px[<<0, 0>>] = <<77, 250, 1>>
    /\ history[1].result.px[<<0, 0>>][1] = 201
    /\ history[1].result.px[<<1, 0>>][1] = 200
    /\ history[1].result.px[<<0, 1>>][1] = 203
    /\ history[1].result.px[<<1, 1>>][1] = 201
    /\ history[2].result.px[<<0, 0>>] = <<77, 250, 1>>

\* C9: totality: for all sizes (differing sizes, an empty overlap, odd, 0 and
\* 1 included) every getpixel and putpixel of hide_image and extract_image
\* lies inside its image, no run reaches an error, and an empty overlap
\* gives an image with no pixel.
C9_Total ==
    /\ pc # "error"
    /\ (pc = "hide_loop" /\ i < data_xs /\ j < data_ys) => hide_in_bounds(i, j)
    /\ (pc = "extract_loop" /\ i < data_xs /\ j < data_ys) => extract_in_bounds(i, j)
    /\ \A k \in 1..Len(history) :
          ( /\ history[k].method = "hide"
            /\ \E d \in 1..2 : Min(history[k].camul.size[d], history[k].secret.size[d]) = 0 )
          => DOMAIN history[k].result.px = {}

\* a hide run on images of differing sizes, and one with an empty overlap
C9_Witness ==
    /\ pc = "returned"
    /\ Len(history) = 4
    /\ history[1].camul.size = <<2, 1>>
    /\ history[1].secret.size = <<1, 2>>
    /\ history[2].camul.size = <<2, 2>>
    /\ history[2].result.size = <<1, 1>>

C9_WitnessEmpty ==
    /\ pc = "returned"
    /\ method = "hide"
    /\ camul.size = <<2, 2>>
    /\ secret.size = <<0, 2>>
    /\ data.size = <<0, 4>>
    /\ DOMAIN data.px = {}

----------------------------------------------------------------------------
(* Properties of the loops run in any order (SpecAnyOrder).                *)

\* what the image being built holds once the bodies of the set done have run
Built(m, c, s, done) ==
    IF m = "hide"
    THEN [xy \in Coords(2 * Min(c.size[1], s.size[1]), 2 * Min(c.size[2], s.size[2])) |->
            LET ab == <<xy[1] \div 2, xy[2] \div 2>>
                g == 1 + (xy[1] % 2) + 2 * (xy[2] % 2)
            IN  IF ab \in done
                THEN [ch \in 1..3 |-> (c.px[ab][ch] - (c.px[ab][ch] % 4)) + Group(s.px[ab][ch], g)]
                ELSE <<0, 0, 0>>]
    ELSE [xy \in Coords(c.size[1] \div 2, c.size[2] \div 2) |->
            IF xy \in done
            THEN [ch \in 1..3 |->
                    64 * (c.px[Block(xy[1], xy[2])[1]][ch] % 4)
                  + 16 * (c.px[Block(xy[1], xy[2])[2]][ch] % 4)
                  + 4 * (c.px[Block(xy[1], xy[2])[3]][ch] % 4)
                  + (c.px[Block(xy[1], xy[2])[4]][ch] % 4)]
            ELSE <<0, 0, 0>>]

\* the pixels of data the bodies of the set done write
Written(m, done) ==
    IF m = "hide"
    THEN {xy \in DOMAIN data.px : <<xy[1] \div 2, xy[2] \div 2>> \in done}
    ELSE {xy \in DOMAIN data.px : xy \in done}

\* C10: disjoint, complete writes: the pixels written for one (i, j) are
\* written for no other, and together they cover every pixel of the output
\* exactly once, in hide_image and in extract_image; so the image built is
\* the same for every order in which the (i, j) are taken.
C10_DisjointCompleteWrites ==
    pc \in {"hide_loop", "extract_loop", "returned"} =>
        /\ DOMAIN writes = DOMAIN data.px
        /\ \A xy \in DOMAIN writes :
              writes[xy] = IF xy \in Written(method, visited) THEN 1 ELSE 0
        /\ data.px = Built(method, camul, secret, visited)
        /\ pc = "returned" =>
              /\ visited = Coords(data_xs, data_ys)
              /\ \A xy \in DOMAIN data.px : writes[xy] = 1

\* a hide run that took (1, 1) first and (0, 0) last
C10_Witness ==
    /\ pc = "returned"
    /\ method = "hide"
    /\ Cardinality(visited) = 4
    /\ i = 0
    /\ j = 0
    /\ data.size = <<4, 4>>
    /\ \A xy \in DOMAIN data.px : writes[xy] = 1

====
